---- MODULE Spec2Model ----
(***************************************************************************)
(* The OpenID Connect login client of qvain-api, internal/oidc/client.go:  *)
(* NewOidcClient, the Auth handler (BeginLogin) and the Callback handler   *)
(* (CompleteLogin).  One request is handled at a time; the Callback        *)
(* handler is split at its calls to the outside world (code exchange,      *)
(* identity-token verification, the OnLogin hook), whose results are       *)
(* chosen by the environment.  A request's cookie header and query         *)
(* parameters are chosen by the client that sends it.                      *)
(***************************************************************************)
EXTENDS Naturals, Sequences, FiniteSets, TLC

VARIABLES
    phase,      \* "new" | "failed" | "setup" | "serving"
    client,     \* the OidcClient built by NewOidcClient
    now,        \* wall clock, in seconds
    issued,     \* issued[k]: when, and to which browser, Auth set state key k
    usedCodes,  \* authorization codes the IdP has already exchanged
    req,        \* the request being handled, or the last one handled
    hooked,     \* the state keys for which a callback has invoked OnLogin
    slots,      \* the login attempts of browsers whose requests interleave
    setup,      \* a call of NewOidcClient looked at on its own
    dump,       \* a call of DumpToken
    w           \* a WhereBuilder (internal/psql), with the calls made on it

vars == <<phase, client, now, issued, usedCodes, req, hooked, slots, setup, dump, w>>

\* What the handlers of one request at a time leave alone.
others == <<slots, setup, dump, w>>

----------------------------------------------------------------------------
(* Bounds of the model. *)

MaxKeys == 2          \* state keys Auth generates in one run
MaxOptions == 3       \* options passed to NewOidcClient
TickSeconds == 700    \* one step of the clock
MaxClock == 700       \* the clock stops ticking here

(* Program constants. *)

DefaultLoginTimeout == 600
DefaultCookiePath == "/api/auth"
StatusFound == 302
StatusBadRequest == 400
StatusForbidden == 403
StatusInternalServerError == 500

\* Errors are compared by identity (err == ErrMissingCSCUserName): id is the
\* identity of the error value, msg its text.
ErrMissingCSCUserName == [id |-> "ErrMissingCSCUserName", msg |-> "Missing CSCUserName field"]
ErrMissingOrganization == [id |-> "ErrMissingOrganization", msg |-> "Missing Organization field"]

----------------------------------------------------------------------------
(* Values a client can send. *)

Browsers == {"b1"}

KeyText == <<"k1", "k2", "k3", "k4">>

\* randomkey.Random16 followed by Base64: a non-empty text, one per key.
Base64(key) == KeyText[key]

StateParams == {""} \cup {Base64(k) : k \in 1..MaxKeys}
Tokens == {"valid", "expired", "forged"}
TokenParams == {""} \cup Tokens
\* Authorization codes the IdP has handed out.
Codes == {"c1"}
CodeParams == {""} \cup Codes

NoCookie == [present |-> FALSE, value |-> ""]
Cookie(v) == [present |-> TRUE, value |-> v]
CookieHeaders == {NoCookie} \cup {Cookie(v) : v \in StateParams}

OptionNames == {"WithAllowDevLogin", "WithSkipExpiryCheck"}
Options == [name : OptionNames, val : BOOLEAN]
OptionLists == UNION {[1..n -> Options] : n \in 0..MaxOptions}

----------------------------------------------------------------------------
(* NewOidcClient and the set-up phase. *)

NilClient ==
    [allowDevLogin |-> FALSE, skipExpiryCheck |-> FALSE, onLogin |-> FALSE,
     frontendUrl |-> "", redirectURL |-> "", state |-> "", discoveries |-> 0]

\* WithAllowDevLogin / WithSkipExpiryCheck: one option applied to the client.
ApplyOption(c, o) ==
    IF o.name = "WithAllowDevLogin"
    THEN [c EXCEPT !.allowDevLogin = o.val]
    ELSE [c EXCEPT !.skipExpiryCheck = o.val]

RECURSIVE ApplyOptions(_, _)
ApplyOptions(c, opts) ==
    IF opts = <<>> THEN c
    ELSE ApplyOptions(ApplyOption(c, Head(opts)), Tail(opts))

\* The client NewOidcClient returns when discovery succeeded.
BuiltClient(opts) ==
    ApplyOptions([allowDevLogin |-> FALSE, skipExpiryCheck |-> FALSE,
                  onLogin |-> FALSE, frontendUrl |-> "https://frontend/",
                  redirectURL |-> "https://api/api/auth/cb", state |-> "foobar",
                  discoveries |-> 1],
                 opts)

\* What NewOidcClient leaves behind with the options applied before the
\* discovery, which is tried again when it fails.
ConstructedOptionsFirst(discoveryOk, opts) ==
    IF discoveryOk
    THEN BuiltClient(opts)
    ELSE ApplyOptions([NilClient EXCEPT !.discoveries = 2], opts)

\* What NewOidcClient leaves behind: the client it returns, or no client
\* (nil) after the one discovery that failed.
Constructed(discoveryOk, opts) ==
    IF discoveryOk
    THEN BuiltClient(opts)
    ELSE [NilClient EXCEPT !.discoveries = 1]

NewOidcClient(discoveryOk, opts) ==
    /\ phase = "new"
    /\ client' = Constructed(discoveryOk, opts)
    /\ phase' = IF discoveryOk THEN "setup" ELSE "failed"
    /\ UNCHANGED <<now, issued, usedCodes, req, hooked, others>>

\* The caller assigns the exported OnLogin field before serving.
SetOnLogin ==
    /\ phase = "setup"
    /\ ~client.onLogin
    /\ client' = [client EXCEPT !.onLogin = TRUE]
    /\ UNCHANGED <<phase, now, issued, usedCodes, req, hooked, others>>

Tick ==
    /\ phase = "serving"
    /\ now < MaxClock
    /\ now' = now + TickSeconds
    /\ UNCHANGED <<phase, client, issued, usedCodes, req, hooked, others>>

----------------------------------------------------------------------------
(* Requests and responses. *)

NilErr == [id |-> "nil", msg |-> ""]
NotCalled == [id |-> "not called", msg |-> ""]

\* What OnLogin can return: nil, the two named errors, an error of its own
\* with the text of a named one, and any other error.
HookErrors ==
    {NilErr, ErrMissingCSCUserName, ErrMissingOrganization,
     [id |-> "errors.New#1", msg |-> "Missing CSCUserName field"],
     [id |-> "errors.New#2", msg |-> "database unavailable"]}

NoSetCookie ==
    [present |-> FALSE, value |-> "", path |-> "", expires |-> 0, maxAge |-> 0,
     secure |-> FALSE, httpOnly |-> FALSE]

\* A request with what the handler has done for it so far.  randomErr,
\* exchanged, verified and hookErr are what the outside world returned to it;
\* hookedBefore: OnLogin had already run for this state key when it ran again;
\* ctx: the context the handler passes to its calls to the IdP; cancelledAt:
\* the call that was in flight when the client went away, if it did.
NoReq ==
    [kind |-> "none", pc |-> "idle", browser |-> "", cookie |-> NoCookie,
     state |-> "", token |-> "", code |-> "", at |-> 0, randomErr |-> FALSE,
     rawIDToken |-> "", oauth2Token |-> "nil", setCookie |-> NoSetCookie,
     exchanged |-> "not called", verified |-> "not called", hookErr |-> NotCalled,
     hookedBefore |-> FALSE, ctx |-> "", cancelledAt |-> "",
     trace |-> <<>>, resp |-> <<>>, logs |-> <<>>]

\* http.Error followed by return
HttpError(r, body, status) ==
    [r EXCEPT !.resp = Append(@, [status |-> status, body |-> body, location |-> ""]),
              !.trace = Append(@, <<"respond", "error">>),
              !.pc = "done"]

\* http.Redirect followed by return
HttpRedirect(r, url) ==
    [r EXCEPT !.resp = Append(@, [status |-> StatusFound, body |-> "", location |-> url]),
              !.trace = Append(@, <<"respond", "redirect">>),
              !.pc = "done"]

Log(r, level, msg) == [r EXCEPT !.logs = Append(@, [level |-> level, msg |-> msg])]

Step(r, step, result) == [r EXCEPT !.trace = Append(@, <<step, result>>)]

CanStart == phase \in {"setup", "serving"} /\ req.pc \in {"idle", "done"}

\* if !client.allowDevLogin, negated
DevLoginNotChecked(c) == TRUE
DevLoginAllowed(c) == c.allowDevLogin

----------------------------------------------------------------------------
(* Auth: the handler that forwards the client to the authorization        *)
(* endpoint.                                                               *)

\* The cookie Auth sets for state value v at time t.
StateCookie(v, t) ==
    [present |-> TRUE, value |-> v, path |-> DefaultCookiePath,
     expires |-> t + DefaultLoginTimeout, maxAge |-> DefaultLoginTimeout,
     secure |-> TRUE, httpOnly |-> TRUE]

\* oauthConfig.AuthCodeURL(state, ...)
AuthCodeURLOfClientState(state) == "https://idp/authorize?state=" \o "foobar"
AuthCodeURL(state) == "https://idp/authorize?state=" \o state

\* The whole handler: r is the request, randomErr whether Random16 failed,
\* key the key it returned otherwise, t the time.
AuthHandler(c, r, randomErr, key, t) ==
    IF randomErr
    THEN HttpError(Log(Step(r, "random", "fail"), "error", "can't create state parameter"),
                   "can't create state parameter", StatusInternalServerError)
    ELSE LET state == Base64(key)
             r1 == Step([Step(r, "random", "ok") EXCEPT !.setCookie = StateCookie(state, t)],
                        "setcookie", "ok")
         IN  IF r.token # ""
             THEN IF ~DevLoginAllowed(c)
                  THEN HttpError(Log(Step(r1, "devtoken", "fail"), "debug",
                                     "dev token login not allowed"),
                                 "access denied", StatusForbidden)
                  ELSE HttpRedirect(Log(Step(r1, "devtoken", "ok"), "debug",
                                        "logging in with dev token, redirect to callback"),
                                    c.redirectURL \o "?token=" \o r.token
                                        \o "&state=" \o state)
             ELSE HttpRedirect(Log(r1, "debug", "redirect to IdP"), AuthCodeURL(state))

AuthRequest(b, token, randomErr) ==
    [NoReq EXCEPT !.kind = "Auth", !.pc = "run", !.browser = b, !.token = token,
                  !.at = now, !.randomErr = randomErr]

Auth(b, token, randomErr) ==
    /\ CanStart
    /\ Len(issued) < MaxKeys
    /\ LET r == AuthHandler(client, AuthRequest(b, token, randomErr), randomErr, Len(issued) + 1, now)
       IN  /\ req' = r
           /\ issued' = IF r.setCookie.present
                        THEN Append(issued, [at |-> now, to |-> b])
                        ELSE issued
    /\ phase' = "serving"
    /\ UNCHANGED <<client, now, usedCodes, hooked, others>>

\* The browser's cookie jar: the last state cookie set for it, until it expires.
Jar(b) ==
    LET mine == {k \in 1..Len(issued) : issued[k].to = b}
    IN  IF mine = {} THEN NoCookie
        ELSE LET k == CHOOSE x \in mine : \A y \in mine : y <= x
             IN  IF now < issued[k].at + DefaultLoginTimeout
                 THEN Cookie(Base64(k)) ELSE NoCookie

----------------------------------------------------------------------------
(* Callback: the handler that takes the callback from the IdP.             *)

\* cookie, err := r.Cookie("state"); err != nil
CookieErrIgnored(cookie) == FALSE
CookieMissing(cookie) == ~cookie.present

\* r.URL.Query().Get("state") != cookie.Value, negated
StateMatchesPrefix(param, cookieValue) == param = cookieValue \/ param = ""
StateMatchesNonEmpty(param, cookieValue) == param # ""
StateMatches(param, cookieValue) == param = cookieValue

\* From the start of the handler to its first call to the outside world.
CallbackBegin(c, r) ==
    IF CookieMissing(r.cookie)
    THEN HttpError(Log(Step(r, "cookie", "fail"), "debug", "no state cookie"),
                   "login session expired", StatusBadRequest)
    ELSE LET r1 == Step(r, "cookie", "ok") IN
    IF ~StateMatches(r.state, r.cookie.value)
    THEN HttpError(Log(Step(r1, "state", "fail"), "debug", "state did not match"),
                   "state did not match", StatusBadRequest)
    ELSE LET r2 == Step(r1, "state", "ok") IN
    IF r.token # ""
    THEN IF ~DevLoginAllowed(c)
         THEN HttpError(Log(Step(r2, "devtoken", "fail"), "debug",
                            "dev token login not allowed"),
                        "access denied", StatusForbidden)
         ELSE [Step(r2, "devtoken", "ok") EXCEPT !.rawIDToken = r.token, !.pc = "verify"]
    ELSE [r2 EXCEPT !.pc = "exchange"]

\* ctx := context.Background()
CallbackCtx == "context.Background()"

\* A call that is handed ctx is abandoned once ctx is cancelled: the request's
\* own context is cancelled when its client goes away, the background context
\* never.
CtxDone(r) == r.ctx = "r.Context()" /\ r.cancelledAt # ""

CallbackRequest(cookie, state, token, code) ==
    [NoReq EXCEPT !.kind = "Callback", !.pc = "run", !.cookie = cookie, !.state = state,
                  !.token = token, !.code = code, !.at = now, !.ctx = CallbackCtx]

Callback(cookie, state, token, code) ==
    /\ CanStart
    /\ req' = CallbackBegin(client, CallbackRequest(cookie, state, token, code))
    /\ phase' = "serving"
    /\ UNCHANGED <<client, now, issued, usedCodes, hooked, others>>

\* What oauthConfig.Exchange can return for a code: the IdP refuses an empty
\* or an already exchanged code; any call can fail; a bundle may lack id_token.
ExchangeErr == [err |-> TRUE, hasIDToken |-> FALSE, idToken |-> ""]
ExchangeResults ==
    {ExchangeErr, [err |-> FALSE, hasIDToken |-> FALSE, idToken |-> ""]}
    \cup {[err |-> FALSE, hasIDToken |-> TRUE, idToken |-> t] : t \in Tokens}
ExchangeOutcomes(code, used) ==
    IF code = "" \/ code \in used THEN {ExchangeErr} ELSE ExchangeResults

\* rawIDToken, ok = oauth2Token.Extra("id_token").(string); !ok
IDTokenMissingIgnored(out) == FALSE
IDTokenMissing(out) == ~out.hasIDToken

\* After oauthConfig.Exchange returned out.
AfterExchange(r, out) ==
    IF out.err
    THEN HttpError(Log(Step(r, "exchange", "fail"), "error", "token exchange failed"),
                   "failed to exchange code for token", StatusInternalServerError)
    ELSE LET r1 == [Step(r, "exchange", "ok") EXCEPT !.oauth2Token = "token"] IN
    IF IDTokenMissing(out)
    THEN HttpError(Log(Step(r1, "idtoken", "fail"), "error",
                       "id_token missing from IdP response"),
                   "IdP did not sent an id token", StatusInternalServerError)
    ELSE [Step(r1, "idtoken", "ok") EXCEPT !.rawIDToken = out.idToken, !.pc = "verify"]

CallbackExchange(out) ==
    /\ req.kind = "Callback" /\ req.pc = "exchange"
    /\ out \in ExchangeOutcomes(req.code, usedCodes)
    /\ CtxDone(req) => out.err
    /\ req' = [AfterExchange(req, out) EXCEPT
                  !.exchanged = IF out.err THEN "error"
                                ELSE IF out.hasIDToken THEN "token with id_token"
                                ELSE "token without id_token"]
    /\ usedCodes' = IF out.err THEN usedCodes ELSE usedCodes \cup {req.code}
    /\ UNCHANGED <<phase, client, now, issued, hooked, others>>

\* What oidcVerifier.Verify can return for a raw token: a forged token never
\* verifies, an expired one only with SkipExpiryCheck; any call can fail.
VerifyOutcomes(c, raw) ==
    IF raw = "valid" \/ (raw = "expired" /\ c.skipExpiryCheck)
    THEN {TRUE, FALSE} ELSE {FALSE}

\* done; redirect to frontend login url
FinalRedirectToCallbackURL(c) == c.redirectURL
FinalRedirectURL(c) == c.frontendUrl

\* if client.OnLogin != nil
OnLoginNeverSet(c) == FALSE
OnLoginSet(c) == c.onLogin

\* After oidcVerifier.Verify returned: up to the OnLogin call, or to the end
\* when no hook is set.
AfterVerifyErrIgnored(c, r, ok) ==
    LET r1 == Log(Step(r, "verify", "ok"), "info", "login") IN
    IF OnLoginSet(c) THEN [r1 EXCEPT !.pc = "hook"]
    ELSE HttpRedirect(r1, FinalRedirectURL(c))
AfterVerify(c, r, ok) ==
    IF ~ok
    THEN HttpError(Log(Step(r, "verify", "fail"), "error", "id token does not verify"),
                   "id token verification failed", StatusInternalServerError)
    ELSE LET r1 == Log(Step(r, "verify", "ok"), "info", "login") IN
    IF OnLoginSet(c)
    THEN [r1 EXCEPT !.pc = "hook"]
    ELSE HttpRedirect(r1, FinalRedirectURL(c))

CallbackVerify(ok) ==
    /\ req.kind = "Callback" /\ req.pc = "verify"
    /\ ok \in VerifyOutcomes(client, req.rawIDToken)
    /\ CtxDone(req) => ~ok
    /\ req' = [AfterVerify(client, req, ok) EXCEPT
                  !.verified = IF ok THEN "ok" ELSE "error"]
    /\ UNCHANGED <<phase, client, now, issued, usedCodes, hooked, others>>

\* client.frontendUrl+"?missingcsc=1" and client.frontendUrl+"?missingorg=1"
MissingCSCRedirectURL(c) == c.frontendUrl \o "?missingcsc=1"
MissingOrgAsCSC(c) == c.frontendUrl \o "?missingcsc=1"
MissingOrgRedirectURL(c) == c.frontendUrl \o "?missingorg=1"

\* After client.OnLogin returned err, with the return after http.Error left out.
AfterOnLoginNoReturn(c, r, err) ==
    IF err # NilErr /\ err # ErrMissingCSCUserName /\ err # ErrMissingOrganization
    THEN HttpRedirect(HttpError(Log(Step(r, "hook", "fail"), "error",
                                    "OnLogin callback failed"),
                                "Login failed", StatusInternalServerError),
                      c.frontendUrl)
    ELSE HttpRedirect(Step(r, "hook", "ok"), c.frontendUrl)

\* After client.OnLogin returned err.
AfterOnLogin(c, r, err) ==
    IF err # NilErr
    THEN IF err = ErrMissingCSCUserName
         THEN HttpRedirect(Step(r, "hook", "recoverable"), MissingCSCRedirectURL(c))
         ELSE IF err = ErrMissingOrganization
         THEN HttpRedirect(Step(r, "hook", "recoverable"), MissingOrgRedirectURL(c))
         ELSE HttpError(Log(Step(r, "hook", "fail"), "error", "OnLogin callback failed"),
                        "Login failed", StatusInternalServerError)
    ELSE HttpRedirect(Step(r, "hook", "ok"), FinalRedirectURL(c))

CallbackOnLogin(err) ==
    /\ req.kind = "Callback" /\ req.pc = "hook"
    /\ LET keys == {k \in 1..Len(issued) : req.state = Base64(k)}
       IN  /\ req' = [AfterOnLogin(client, req, err) EXCEPT
                         !.hookErr = err, !.hookedBefore = keys \cap hooked # {}]
           /\ hooked' = hooked \cup keys
    /\ UNCHANGED <<phase, client, now, issued, usedCodes, others>>

\* The client of the callback goes away (the browser disconnects) while the
\* handler waits for the IdP: net/http cancels the request's context.
Cancel ==
    /\ req.kind = "Callback" /\ req.pc \in {"exchange", "verify"}
    /\ req.cancelledAt = ""
    /\ req' = [req EXCEPT !.cancelledAt = req.pc]
    /\ UNCHANGED <<phase, client, now, issued, usedCodes, hooked, others>>

----------------------------------------------------------------------------
(* Login attempts of two browsers, each with a cookie jar of its own, whose *)
(* handlers interleave at their calls to the outside world.                *)

ConcBrowsers == {"b1", "b2"}

\* The authorization code the IdP hands to each browser.
ConcCode == [b \in ConcBrowsers |-> IF b = "b1" THEN "c1" ELSE "c2"]

\* An attempt: cfg is the client as it was when the attempt began, key the
\* key Random16 returned to its Auth, auth and cb its two requests, xout, vok
\* and herr what the exchange, the verification and the hook returned to it.
NoSlot ==
    [stage |-> "start", cfg |-> NilClient, key |-> 0, auth |-> NoReq, cb |-> NoReq,
     xout |-> <<>>, vok |-> <<>>, herr |-> <<>>]
NoSlots == [b \in ConcBrowsers |-> NoSlot]

\* The fields of the client a handler assigns to: none.
HandlerStoresState(c, r) ==
    IF r.setCookie.present THEN [c EXCEPT !.state = r.setCookie.value] ELSE c
HandlerWrites(c, r) == c

\* The cookie the browser of an attempt sends: the one its Auth set.
SlotJar(s) ==
    IF s.auth.setCookie.present THEN Cookie(s.auth.setCookie.value) ELSE NoCookie

ConcAuth(b, token, randomErr) ==
    /\ slots[b].stage = "start"
    /\ LET key == Len(issued) + 1
           r == AuthHandler(client, AuthRequest(b, token, randomErr), randomErr, key, now)
       IN  /\ slots' = [slots EXCEPT ![b] = [@ EXCEPT !.stage = "authed", !.cfg = client,
                                                      !.key = key, !.auth = r]]
           /\ issued' = IF r.setCookie.present
                        THEN Append(issued, [at |-> now, to |-> b])
                        ELSE issued
           /\ client' = HandlerWrites(client, r)
    /\ UNCHANGED <<phase, now, usedCodes, req, hooked, setup, dump, w>>

ConcCallback(b, state, token) ==
    /\ slots[b].stage = "authed"
    /\ LET r == CallbackBegin(client,
                    [CallbackRequest(SlotJar(slots[b]), state, token, ConcCode[b])
                        EXCEPT !.browser = b])
       IN  /\ slots' = [slots EXCEPT ![b] = [@ EXCEPT !.stage = "called", !.cb = r]]
           /\ client' = HandlerWrites(client, r)
    /\ UNCHANGED <<phase, now, issued, usedCodes, req, hooked, setup, dump, w>>

ConcExchange(b, out) ==
    /\ slots[b].stage = "called" /\ slots[b].cb.pc = "exchange"
    /\ out \in ExchangeOutcomes(slots[b].cb.code, usedCodes)
    /\ LET r == AfterExchange(slots[b].cb, out)
       IN  /\ slots' = [slots EXCEPT ![b] = [@ EXCEPT !.cb = r, !.xout = <<out>>]]
           /\ client' = HandlerWrites(client, r)
    /\ usedCodes' = IF out.err THEN usedCodes ELSE usedCodes \cup {slots[b].cb.code}
    /\ UNCHANGED <<phase, now, issued, req, hooked, setup, dump, w>>

ConcVerify(b, ok) ==
    /\ slots[b].stage = "called" /\ slots[b].cb.pc = "verify"
    /\ ok \in VerifyOutcomes(client, slots[b].cb.rawIDToken)
    /\ LET r == AfterVerify(client, slots[b].cb, ok)
       IN  /\ slots' = [slots EXCEPT ![b] = [@ EXCEPT !.cb = r, !.vok = <<ok>>]]
           /\ client' = HandlerWrites(client, r)
    /\ UNCHANGED <<phase, now, issued, usedCodes, req, hooked, setup, dump, w>>

ConcOnLogin(b, err) ==
    /\ slots[b].stage = "called" /\ slots[b].cb.pc = "hook"
    /\ LET r == AfterOnLogin(client, slots[b].cb, err)
       IN  /\ slots' = [slots EXCEPT ![b] = [@ EXCEPT !.cb = r, !.herr = <<err>>]]
           /\ client' = HandlerWrites(client, r)
    /\ UNCHANGED <<phase, now, issued, usedCodes, req, hooked, setup, dump, w>>

\* The clients the attempts are served by: built, with or without the hook.
ConcClients ==
    {[BuiltClient(<<[name |-> "WithAllowDevLogin", val |-> v]>>) EXCEPT !.onLogin = h] :
        v \in BOOLEAN, h \in BOOLEAN}

----------------------------------------------------------------------------
(* A call of NewOidcClient, with what it was given and what it returned.   *)

NoSetup ==
    [pc |-> "idle", discoveryOk |-> FALSE, opts |-> <<>>, client |-> NilClient,
     err |-> FALSE]

SetupCall(discoveryOk, opts) ==
    /\ setup.pc = "idle"
    /\ setup' = [pc |-> "returned", discoveryOk |-> discoveryOk, opts |-> opts,
                 client |-> Constructed(discoveryOk, opts), err |-> ~discoveryOk]
    /\ UNCHANGED <<phase, client, now, issued, usedCodes, req, hooked, slots, dump, w>>

----------------------------------------------------------------------------
(* DumpToken: the diagnostic dump of a token bundle and an identity token. *)

StatusOK == 200

\* The token bundles a caller passes (oauth2.Token).
AccessTokens == {"", "***", "secret-a"}
RefreshTokens == {"", "***", "secret-a", "secret-r"}
TokenTypes == {"", "Bearer"}
Expiries == {"0001-01-01T00:00:00Z", "2019-03-01T12:00:00Z"}
DumpTokens ==
    [AccessToken : AccessTokens, TokenType : TokenTypes,
     RefreshToken : RefreshTokens, Expiry : Expiries]

\* if token.AccessToken != "" { token.AccessToken = "***" }, and the same for
\* the refresh token.
CensorKeepsValue(v) == v
Censor(v) == IF v # "" THEN "***" ELSE v

\* The caller's token once both assignments are done.
Redact(token) ==
    [token EXCEPT !.AccessToken = Censor(token.AccessToken),
                  !.RefreshToken = Censor(token.RefreshToken)]

\* json.MarshalIndent of struct{OAuth2Token, IDTokenClaims}: the document as
\* its members in order; token_type and refresh_token are left out when empty.
MarshalIndent(token, claims) ==
    << <<"OAuth2Token.access_token", token.AccessToken>> >>
    \o (IF token.TokenType # "" THEN << <<"OAuth2Token.token_type", token.TokenType>> >>
        ELSE <<>>)
    \o (IF token.RefreshToken # ""
        THEN << <<"OAuth2Token.refresh_token", token.RefreshToken>> >> ELSE <<>>)
    \o << <<"OAuth2Token.expiry", token.Expiry>>, <<"IDTokenClaims", claims>> >>

NoDump ==
    [pc |-> "idle",
     original |-> [AccessToken |-> "", TokenType |-> "", RefreshToken |-> "", Expiry |-> ""],
     token |-> [AccessToken |-> "", TokenType |-> "", RefreshToken |-> "", Expiry |-> ""],
     status |-> 0, contentType |-> "", body |-> <<>>, logs |-> <<>>]

\* The handler with the tokens censored only once the claims are extracted.
DumpHandlerCensorsLate(token, claims, claimsErr, marshalErr) ==
    IF claimsErr
    THEN [pc |-> "returned", original |-> token, token |-> token,
          status |-> StatusInternalServerError, contentType |-> "text/plain",
          body |-> << <<"", "oidc: claims not set">> >>,
          logs |-> <<[level |-> "error", msg |-> "failed to extract claims"]>>]
    ELSE [pc |-> "returned", original |-> token, token |-> Redact(token),
          status |-> StatusOK, contentType |-> "application/json",
          body |-> MarshalIndent(Redact(token), claims), logs |-> <<>>]

\* The whole handler: token is the caller's token when it is called, claims
\* the claims of the identity token, claimsErr and marshalErr whether
\* idToken.Claims and json.MarshalIndent fail.
DumpHandler(token, claims, claimsErr, marshalErr) ==
    LET censored == Redact(token) IN
    IF claimsErr
    THEN [pc |-> "returned", original |-> token, token |-> censored,
          status |-> StatusInternalServerError, contentType |-> "text/plain",
          body |-> << <<"", "oidc: claims not set">> >>,
          logs |-> <<[level |-> "error", msg |-> "failed to extract claims"]>>]
    ELSE IF marshalErr
    THEN [pc |-> "returned", original |-> token, token |-> censored,
          status |-> StatusInternalServerError, contentType |-> "text/plain",
          body |-> << <<"", "Internal Server Error">> >>,
          logs |-> <<[level |-> "error", msg |-> "failed to marshal json response"]>>]
    ELSE [pc |-> "returned", original |-> token, token |-> censored,
          status |-> StatusOK, contentType |-> "application/json",
          body |-> MarshalIndent(censored, claims), logs |-> <<>>]

DumpToken(token, claimsErr, marshalErr) ==
    /\ dump.pc = "idle"
    /\ dump' = DumpHandler(token, "{sub, iss, aud, exp}", claimsErr, marshalErr)
    /\ UNCHANGED <<phase, client, now, issued, usedCodes, req, hooked, slots, setup, w>>

----------------------------------------------------------------------------
Init ==
    /\ phase = "new"
    /\ client = NilClient
    /\ now = 0
    /\ issued = <<>>
    /\ usedCodes = {}
    /\ req = NoReq
    /\ hooked = {}
    /\ slots = <<>>
    /\ setup = <<>>
    /\ dump = <<>>
    /\ w = <<>>

Next ==
    \/ \E ok \in BOOLEAN, opts \in OptionLists : NewOidcClient(ok, opts)
    \/ SetOnLogin
    \/ Tick
    \/ \E b \in Browsers, token \in TokenParams, randomErr \in BOOLEAN :
          Auth(b, token, randomErr)
    \/ \E cookie \in CookieHeaders, state \in StateParams,
          token \in TokenParams, code \in CodeParams :
          Callback(cookie, state, token, code)
    \/ \E out \in ExchangeResults : CallbackExchange(out)
    \/ \E ok \in BOOLEAN : CallbackVerify(ok)
    \/ \E err \in HookErrors : CallbackOnLogin(err)

Spec == Init /\ [][Next]_vars

ConcInit ==
    /\ phase = "serving"
    /\ client \in ConcClients
    /\ now = 0
    /\ issued = <<>>
    /\ usedCodes = {}
    /\ req = NoReq
    /\ hooked = {}
    /\ slots = NoSlots
    /\ setup = <<>>
    /\ dump = <<>>
    /\ w = <<>>

ConcNext ==
    \/ \E b \in ConcBrowsers, token \in {"", "valid"}, randomErr \in BOOLEAN :
          ConcAuth(b, token, randomErr)
    \/ \E b \in ConcBrowsers, state \in StateParams, token \in TokenParams :
          ConcCallback(b, state, token)
    \/ \E b \in ConcBrowsers, out \in ExchangeResults : ConcExchange(b, out)
    \/ \E b \in ConcBrowsers, ok \in BOOLEAN : ConcVerify(b, ok)
    \/ \E b \in ConcBrowsers, err \in HookErrors : ConcOnLogin(b, err)

ConcSpec == ConcInit /\ [][ConcNext]_vars

\* No client is built, no request is served; slots, setup, dump and w are
\* empty wherever they are not in use.
Idle ==
    /\ phase = "new"
    /\ client = NilClient
    /\ now = 0
    /\ issued = <<>>
    /\ usedCodes = {}
    /\ req = NoReq
    /\ hooked = {}
    /\ slots = <<>>

SetupInit == Idle /\ setup = NoSetup /\ dump = <<>> /\ w = <<>>

SetupNext == \E ok \in BOOLEAN, opts \in OptionLists : SetupCall(ok, opts)

SetupSpec == SetupInit /\ [][SetupNext]_vars

DumpNext ==
    \E token \in DumpTokens, claimsErr \in BOOLEAN, marshalErr \in BOOLEAN :
        DumpToken(token, claimsErr, marshalErr)

DumpInit == Idle /\ setup = <<>> /\ dump = NoDump /\ w = <<>>

DumpSpec == DumpInit /\ [][DumpNext]_vars

\* The handlers, with clients that may go away during a callback.
NextOrCancel == Next \/ Cancel

CancelSpec == Init /\ [][NextOrCancel]_vars

\* A call the handler waits for: the code exchange, the verification, the hook.
Returns ==
    \/ \E out \in ExchangeResults : CallbackExchange(out)
    \/ \E ok \in BOOLEAN : CallbackVerify(ok)
    \/ \E err \in HookErrors : CallbackOnLogin(err)

\* A client that is built and serves requests.
ServeInit ==
    /\ phase = "serving"
    /\ client \in ConcClients
    /\ now = 0
    /\ issued = <<>>
    /\ usedCodes = {}
    /\ req = NoReq
    /\ hooked = {}
    /\ slots = <<>>
    /\ setup = <<>>
    /\ dump = <<>>
    /\ w = <<>>

ServeNext ==
    \/ \E b \in Browsers, token \in TokenParams, randomErr \in BOOLEAN :
          Auth(b, token, randomErr)
    \/ \E cookie \in CookieHeaders, state \in StateParams,
          token \in TokenParams, code \in CodeParams :
          Callback(cookie, state, token, code)
    \/ \E out \in ExchangeResults : CallbackExchange(out)
    \/ \E ok \in BOOLEAN : CallbackVerify(ok)
    \/ \E err \in HookErrors : CallbackOnLogin(err)

\* net/http runs each handler in a goroutine of its own, which goes on as
\* soon as the call it waits for has returned; every such call returns.
FairSpec == ServeInit /\ [][ServeNext]_vars /\ WF_vars(Returns)

----------------------------------------------------------------------------
(* Properties. *)

IsAuth == req.kind = "Auth"
IsCallback == req.kind = "Callback"
Done == req.pc = "done"
Did(step) == \E i \in 1..Len(req.trace) : req.trace[i][1] = step

\* The request got as far as the code exchange, the verification or the hook.
ReachedIdP ==
    \/ req.pc \in {"exchange", "verify", "hook"}
    \/ Did("exchange") \/ Did("verify") \/ Did("hook")
    \/ req.exchanged # "not called" \/ req.verified # "not called"
    \/ req.hookErr # NotCalled

Answer(status, body) == <<[status |-> status, body |-> body, location |-> ""]>>
Redirected(url) == <<[status |-> StatusFound, body |-> "", location |-> url]>>

\* C1: a callback whose state cookie differs from the state parameter is
\* answered 400 "state did not match" and reaches neither the exchange, the
\* verification nor the hook; a callback that reaches one of them had a state
\* parameter equal to its cookie.
C1_StateMismatchRejected ==
    IsCallback =>
        /\ (req.cookie.present /\ req.state # req.cookie.value) =>
              /\ Done
              /\ req.resp = Answer(StatusBadRequest, "state did not match")
              /\ ~ReachedIdP
        /\ ReachedIdP => req.cookie.present /\ req.state = req.cookie.value

\* Cookie and state parameter both given and different.
C1_Witness ==
    /\ IsCallback /\ Done
    /\ req.cookie.present /\ req.cookie.value # "" /\ req.state # req.cookie.value
    /\ req.code # ""
    /\ req.resp = Answer(StatusBadRequest, "state did not match")

\* C2: a callback without a state cookie is answered 400 "login session
\* expired", whatever its parameters and whatever allowDevLogin, and reaches
\* neither the exchange, the verification nor the hook.
C2_NoCookieSessionExpired ==
    (IsCallback /\ ~req.cookie.present) =>
        /\ Done
        /\ req.resp = Answer(StatusBadRequest, "login session expired")
        /\ ~ReachedIdP

\* No cookie, every parameter given, developer login allowed.
C2_Witness ==
    /\ IsCallback /\ Done /\ ~req.cookie.present
    /\ req.state # "" /\ req.token # "" /\ req.code # "" /\ client.allowDevLogin
    /\ req.resp = Answer(StatusBadRequest, "login session expired")

\* C3 as stated: with allowDevLogin off, every request with a token parameter,
\* to Auth or to Callback, is answered 403 and never reaches verification.
C3_TokenAlwaysForbidden ==
    (~client.allowDevLogin /\ (IsAuth \/ IsCallback) /\ req.token # "") =>
        /\ Done
        /\ req.resp = Answer(StatusForbidden, "access denied")
        /\ ~Did("verify")

\* C3 as amended: with allowDevLogin off, a request with a non-empty token
\* parameter never reaches verification (nor the exchange or the hook); it is
\* answered 403 "access denied" once the handler's earlier checks have passed
\* (Auth: the state key was generated; Callback: the state cookie is present
\* and equals the state parameter), and by the failing earlier check otherwise
\* (Auth: 500; Callback: 400).
C3_DevTokenRejected ==
    (~client.allowDevLogin /\ req.token # "") =>
        /\ IsAuth =>
              /\ Done
              /\ req.resp = IF req.randomErr
                            THEN Answer(StatusInternalServerError,
                                        "can't create state parameter")
                            ELSE Answer(StatusForbidden, "access denied")
        /\ IsCallback =>
              /\ Done
              /\ ~ReachedIdP
              /\ req.resp = IF ~req.cookie.present
                            THEN Answer(StatusBadRequest, "login session expired")
                            ELSE IF req.state # req.cookie.value
                            THEN Answer(StatusBadRequest, "state did not match")
                            ELSE Answer(StatusForbidden, "access denied")

\* A callback with a token that passed the cookie and state checks.
C3_Witness ==
    /\ IsCallback /\ Done /\ ~client.allowDevLogin
    /\ req.token = "valid" /\ req.cookie.present /\ req.state = req.cookie.value
    /\ req.resp = Answer(StatusForbidden, "access denied")

\* C4: on the developer path (non-empty token) the code exchange is never
\* called, a failed verification ends in 500 "id token verification failed"
\* without the hook and without a redirect, and the hook or a redirect is
\* reached only after a successful verification.
C4_DevTokenStillVerified ==
    (IsCallback /\ req.token # "") =>
        /\ req.exchanged = "not called" /\ ~Did("exchange") /\ req.pc # "exchange"
        /\ req.verified = "error" =>
              /\ Done
              /\ req.resp = Answer(StatusInternalServerError,
                                   "id token verification failed")
              /\ req.hookErr = NotCalled /\ ~Did("hook")
        /\ (req.pc = "hook" \/ req.hookErr # NotCalled
              \/ \E i \in 1..Len(req.resp) : req.resp[i].status = StatusFound)
              => req.verified = "ok"

\* A developer-path callback whose token did not verify.
C4_Witness ==
    /\ IsCallback /\ Done /\ client.allowDevLogin /\ client.onLogin
    /\ req.token = "forged" /\ req.cookie.present /\ req.state = req.cookie.value
    /\ req.verified = "error"

\* The steps of a callback that got through verification.
VerifiedSteps(r) ==
    IF r.token # ""
    THEN << <<"cookie", "ok">>, <<"state", "ok">>, <<"devtoken", "ok">>,
            <<"verify", "ok">> >>
    ELSE << <<"cookie", "ok">>, <<"state", "ok">>, <<"exchange", "ok">>,
            <<"idtoken", "ok">>, <<"verify", "ok">> >>

\* What the outside world returned, when every step up to verification passed.
EarlierStepsPassed(r) ==
    /\ r.cookie.present /\ r.state = r.cookie.value
    /\ IF r.token # ""
       THEN client.allowDevLogin /\ r.exchanged = "not called"
       ELSE r.exchanged = "token with id_token"
    /\ r.verified = "ok"

\* C5: in one callback the steps run in the order cookie, state, token
\* acquisition, verification, hook, response: a step is taken only when all
\* steps before it succeeded, the hook is invoked only after verification
\* succeeded, and a redirect is the last thing done: when a hook is set, the
\* redirect to frontendUrl follows the hook's nil return, and a redirect with
\* a marker is the hook step's own answer to a named error.
C5_StepsInOrder ==
    IsCallback =>
        LET t == req.trace
            n == Len(req.trace)
        IN  /\ req.pc = "hook" => t = VerifiedSteps(req) /\ EarlierStepsPassed(req)
            /\ \A i \in 1..n :
                  /\ t[i][1] = "respond" => i = n
                  /\ (t[i][1] # "respond" /\ t[i][2] # "ok") =>
                        i = n - 1 /\ t[n][1] = "respond"
                  /\ t[i][1] = "hook" =>
                        /\ SubSeq(t, 1, i - 1) = VerifiedSteps(req)
                        /\ EarlierStepsPassed(req)
                  /\ t[i] = <<"respond", "redirect">> =>
                        /\ EarlierStepsPassed(req)
                        /\ IF client.onLogin
                           THEN /\ i > 1 /\ t[i - 1][1] = "hook"
                                /\ SubSeq(t, 1, i - 2) = VerifiedSteps(req)
                                /\ IF req.resp[1].location = client.frontendUrl
                                   THEN t[i - 1][2] = "ok" /\ req.hookErr = NilErr
                                   ELSE /\ t[i - 1][2] = "recoverable"
                                        /\ req.hookErr \in {ErrMissingCSCUserName,
                                                            ErrMissingOrganization}
                           ELSE /\ SubSeq(t, 1, i - 1) = VerifiedSteps(req)
                                /\ req.resp[1].location = client.frontendUrl

\* A standard-path callback that ran through the hook to the redirect.
C5_Witness ==
    /\ IsCallback /\ Done /\ req.token = "" /\ client.onLogin
    /\ req.hookErr = NilErr
    /\ req.trace = VerifiedSteps(req) \o << <<"hook", "ok">>, <<"respond", "redirect">> >>

\* C6 as stated: once a callback with a given state cookie and state value
\* has passed the state check, no later callback with the same cookie and
\* state reaches the hook again.
C6_StateAcceptedOnce == IsCallback => ~req.hookedBefore

\* C7 as stated: a callback that presents a state cookie issued by Auth, with
\* the matching state parameter, once the login timeout has passed since that
\* Auth, is answered as a mismatch and reaches neither exchange, verification
\* nor hook.
C7_ExpiredStateRejected ==
    (/\ IsCallback /\ req.cookie.present
     /\ \E k \in 1..Len(issued) :
           /\ req.cookie.value = Base64(k) /\ req.state = Base64(k)
           /\ issued[k].at + DefaultLoginTimeout <= req.at) =>
        /\ Done
        /\ req.resp = Answer(StatusBadRequest, "state did not match")
        /\ ~ReachedIdP

\* C8: a callback with the cookie set by an earlier Auth and the same state
\* value, on the standard path, for which the IdP returned a token with an
\* identity token, verification succeeded and the hook (when set) returned
\* nil, ends in one 302 to exactly frontendUrl.
C8_RoundTrip ==
    (/\ IsCallback
     /\ \E k \in 1..Len(issued) :
           req.cookie = Cookie(Base64(k)) /\ req.state = Base64(k)
     /\ req.token = ""
     /\ req.exchanged = "token with id_token"
     /\ req.verified = "ok"
     /\ client.onLogin => req.hookErr = NilErr) =>
        /\ Done
        /\ req.resp = Redirected(client.frontendUrl)

\* The browser sent the cookie it holds, within the login timeout.
C8_Witness ==
    /\ IsCallback /\ Done /\ client.onLogin /\ req.token = ""
    /\ req.cookie = Jar("b1") /\ req.state = req.cookie.value /\ req.at = now
    /\ req.exchanged = "token with id_token" /\ req.verified = "ok"
    /\ req.hookErr = NilErr
    /\ req.resp = Redirected("https://frontend/")

\* C9: once verification has succeeded, the hook's result alone decides the
\* response: nil (or no hook) gives 302 to frontendUrl, ErrMissingOrganization
\* 302 to frontendUrl?missingorg=1, ErrMissingCSCUserName 302 to
\* frontendUrl?missingcsc=1, any other error 500 and no redirect.
C9_HookDecidesResponse ==
    (IsCallback /\ Done /\ req.verified = "ok") =>
        /\ req.hookErr = NotCalled <=> ~client.onLogin
        /\ req.resp =
              IF req.hookErr \in {NotCalled, NilErr}
              THEN Redirected(client.frontendUrl)
              ELSE IF req.hookErr = ErrMissingOrganization
              THEN Redirected(client.frontendUrl \o "?missingorg=1")
              ELSE IF req.hookErr = ErrMissingCSCUserName
              THEN Redirected(client.frontendUrl \o "?missingcsc=1")
              ELSE Answer(StatusInternalServerError, "Login failed")

\* The hook returned ErrMissingOrganization.
C9_Witness ==
    /\ IsCallback /\ Done /\ req.verified = "ok"
    /\ req.hookErr = ErrMissingOrganization
    /\ req.resp = Redirected("https://frontend/?missingorg=1")

\* C10 as stated: a callback whose state parameter is absent or empty is
\* answered 400 and reaches neither exchange, verification nor hook, whatever
\* its state cookie.
C10_EmptyStateRejected ==
    (IsCallback /\ req.state = "") =>
        /\ Done
        /\ Len(req.resp) = 1 /\ req.resp[1].status = StatusBadRequest
        /\ ~ReachedIdP

\* How many times the request took the given step.
Count(step) == Cardinality({i \in 1..Len(req.trace) : req.trace[i][1] = step})

\* C11: on the standard path (no token parameter) a callback calls the code
\* exchange at most once; when the exchange fails, or the token it returns
\* holds no identity token, the callback is answered 500 and neither the
\* verification nor the hook is invoked.
C11_ExchangeOnceOrServerError ==
    (IsCallback /\ req.token = "") =>
        /\ Count("exchange") <= 1
        /\ req.exchanged = "not called" <=> Count("exchange") = 0
        /\ req.exchanged \in {"error", "token without id_token"} =>
              /\ Done
              /\ req.resp = IF req.exchanged = "error"
                            THEN Answer(StatusInternalServerError,
                                        "failed to exchange code for token")
                            ELSE Answer(StatusInternalServerError,
                                        "IdP did not sent an id token")
              /\ req.verified = "not called" /\ ~Did("verify")
              /\ req.hookErr = NotCalled /\ ~Did("hook")

\* The IdP answered a fresh code with a token that holds no identity token.
C11_Witness ==
    /\ IsCallback /\ Done /\ req.token = "" /\ req.code = "c1" /\ client.onLogin
    /\ req.exchanged = "token without id_token"
    /\ req.resp = Answer(StatusInternalServerError, "IdP did not sent an id token")

\* The statuses the handlers answer with.
TerminalStatuses ==
    {StatusFound, StatusBadRequest, StatusForbidden, StatusInternalServerError}

\* C12: every execution of Auth and of Callback ends, and ends with exactly
\* one response, whose status is 302, 400, 403 or 500: nothing is written
\* before the handler's last step, and nothing after the first response.
C12_ExactlyOneResponse ==
    /\ []((IsAuth \/ IsCallback) =>
             /\ Len(req.resp) = Count("respond")
             /\ IF Done
                THEN /\ Len(req.resp) = 1
                     /\ req.resp[1].status \in TerminalStatuses
                     /\ req.trace[Len(req.trace)][1] = "respond"
                ELSE req.resp = <<>>)
    /\ ((IsAuth \/ IsCallback) ~> Done)

\* A callback the hook failed, after the exchange and the verification.
C12_Witness ==
    /\ IsCallback /\ Done /\ req.token = ""
    /\ req.exchanged = "token with id_token" /\ req.verified = "ok"
    /\ req.hookErr \notin {NotCalled, NilErr, ErrMissingCSCUserName, ErrMissingOrganization}
    /\ Len(req.resp) = 1 /\ req.resp[1].status = StatusInternalServerError

\* The request ended in one of the failure outcomes: an error answer, or the
\* redirect with a marker that follows a named hook error.
FailureOutcome ==
    /\ (IsAuth \/ IsCallback) /\ Done
    /\ \/ req.resp[1].status # StatusFound
       \/ req.hookErr \in {ErrMissingCSCUserName, ErrMissingOrganization}

\* The log entries that report a failure: all but the "login" entry, which
\* reports the successful verification.
FailureLogs == {i \in 1..Len(req.logs) : req.logs[i].msg # "login"}

\* C13 as stated: every failure outcome of a request (random-generation
\* failure, session expired, state mismatch, dev login disabled, exchange
\* failure, missing identity token, verification failure, named hook error,
\* other hook error) is reported by exactly one log entry.
C13_EveryFailureLoggedOnce == FailureOutcome => Cardinality(FailureLogs) = 1

\* The position of the first entry of the trace for the given step, 0 if none.
First(step) ==
    IF Did(step) THEN CHOOSE i \in 1..Len(req.trace) :
                          /\ req.trace[i][1] = step
                          /\ \A j \in 1..(i - 1) : req.trace[j][1] # step
    ELSE 0

\* C14: an Auth that answers 302 has before that set the state cookie to the
\* text of the key Random16 returned to it, a value no earlier Auth has used,
\* and the state in the redirect target (the authorization URL, or the
\* callback URL on the developer path) is the cookie's value; when Random16
\* fails the answer is 500, with no cookie set and no redirect.
C14_CookieBeforeRedirect ==
    IsAuth =>
        /\ Done
        /\ req.randomErr =>
              /\ req.resp = Answer(StatusInternalServerError,
                                   "can't create state parameter")
              /\ ~req.setCookie.present /\ ~Did("setcookie")
        /\ (\E i \in 1..Len(req.resp) : req.resp[i].status = StatusFound) =>
              /\ ~req.randomErr
              /\ req.setCookie.present /\ req.setCookie.value # ""
              /\ Len(issued) > 0 /\ req.setCookie.value = Base64(Len(issued))
              /\ \A k \in 1..(Len(issued) - 1) : Base64(k) # req.setCookie.value
              /\ 0 < First("setcookie") /\ First("setcookie") < First("respond")
              /\ req.resp =
                    IF req.token = ""
                    THEN Redirected("https://idp/authorize?state=" \o req.setCookie.value)
                    ELSE Redirected(client.redirectURL \o "?token=" \o req.token
                                        \o "&state=" \o req.setCookie.value)

\* The second Auth of a run, redirected to the IdP.
C14_Witness ==
    /\ IsAuth /\ Done /\ req.token = "" /\ Len(issued) = 2
    /\ req.setCookie.value = "k2"
    /\ req.resp = Redirected("https://idp/authorize?state=k2")

\* The Auth of an attempt, run with nothing else going on: on the client as
\* the attempt found it, with the key Random16 gave it.
AloneAuth(s) ==
    AuthHandler(s.cfg,
                [NoReq EXCEPT !.kind = "Auth", !.pc = "run", !.browser = s.auth.browser,
                              !.token = s.auth.token, !.at = s.auth.at,
                              !.randomErr = s.auth.randomErr],
                s.auth.randomErr, s.key, s.auth.at)

\* The Callback of an attempt, run with nothing else going on, as far as the
\* outside world has answered it.
AloneCallback(s) ==
    LET jar == IF AloneAuth(s).setCookie.present
               THEN Cookie(AloneAuth(s).setCookie.value) ELSE NoCookie
        r0 == CallbackBegin(s.cfg,
                  [CallbackRequest(jar, s.cb.state, s.cb.token, s.cb.code)
                      EXCEPT !.browser = s.cb.browser, !.at = s.cb.at])
        r1 == IF r0.pc = "exchange" /\ s.xout # <<>> THEN AfterExchange(r0, s.xout[1]) ELSE r0
        r2 == IF r1.pc = "verify" /\ s.vok # <<>> THEN AfterVerify(s.cfg, r1, s.vok[1]) ELSE r1
    IN  IF r2.pc = "hook" /\ s.herr # <<>> THEN AfterOnLogin(s.cfg, r2, s.herr[1]) ELSE r2

\* C15: in every interleaving of the handler steps of two attempts that use
\* cookie jars of their own, each attempt's requests are answered, logged and
\* handed to the hook as when the attempt runs alone, given what the outside
\* world returned to it; and no handler has written to the client.
C15_AttemptsIndependent ==
    \A b \in ConcBrowsers :
        slots[b].stage # "start" =>
            /\ client = slots[b].cfg
            /\ slots[b].auth = AloneAuth(slots[b])
            /\ slots[b].stage = "called" => slots[b].cb = AloneCallback(slots[b])

\* b1 began after b2 and is through, by way of the hook, while b2's callback
\* still waits for its verification.
C15_Witness ==
    /\ slots["b2"].key = 1 /\ slots["b1"].key = 2
    /\ slots["b1"].cb.pc = "done" /\ slots["b1"].herr = <<NilErr>>
    /\ slots["b1"].cb.resp = Redirected("https://frontend/")
    /\ slots["b2"].stage = "called" /\ slots["b2"].cb.pc = "verify"

\* C16 as stated: the code exchange and the verification are handed the
\* request's cancellation signal, so that a call in flight when the client of
\* the callback goes away is abandoned: it returns no token and no verified
\* identity, and the hook is not invoked.
C16_CancellationReachesIdPCalls ==
    IsCallback =>
        /\ req.cancelledAt = "exchange" => req.exchanged \in {"not called", "error"}
        /\ req.cancelledAt # "" =>
              /\ req.verified \in {"not called", "error"}
              /\ req.hookErr = NotCalled /\ req.pc # "hook"

\* The options of a list that set the given toggle.
Setting(opts, name) == {i \in 1..Len(opts) : opts[i].name = name}

\* C17: NewOidcClient runs the discovery exactly once; when the discovery
\* fails it returns an error and no client, whatever options it was given;
\* when it succeeds, a toggle that no option sets has its default: without
\* options, developer login is off and the expiry is checked.
C17_DiscoveryOnceSecureDefaults ==
    setup.pc = "returned" =>
        /\ setup.client.discoveries = 1
        /\ setup.err <=> ~setup.discoveryOk
        /\ ~setup.discoveryOk =>
              /\ setup.client = [NilClient EXCEPT !.discoveries = 1]
              /\ ~setup.client.allowDevLogin /\ ~setup.client.skipExpiryCheck
        /\ setup.discoveryOk =>
              /\ Setting(setup.opts, "WithAllowDevLogin") = {} =>
                     ~setup.client.allowDevLogin
              /\ Setting(setup.opts, "WithSkipExpiryCheck") = {} =>
                     ~setup.client.skipExpiryCheck
              /\ setup.opts = <<>> =>
                     ~setup.client.allowDevLogin /\ ~setup.client.skipExpiryCheck

\* The discovery failed in a call that was given WithAllowDevLogin(true).
C17_Witness ==
    /\ setup.pc = "returned" /\ ~setup.discoveryOk /\ setup.err
    /\ \E i \in 1..Len(setup.opts) :
          setup.opts[i] = [name |-> "WithAllowDevLogin", val |-> TRUE]
    /\ ~setup.client.allowDevLogin

\* The values of the members of what DumpToken wrote.
Written == {dump.body[i][2] : i \in 1..Len(dump.body)}

\* The member of the written document with the given name, as a set.
Member(name) == {dump.body[i][2] : i \in {j \in 1..Len(dump.body) : dump.body[j][1] = name}}

\* C18: what DumpToken writes to the response never holds the access token
\* or the refresh token it was given, when that is not empty (and is not the
\* marker "***" itself): in the document each of them that is not empty
\* reads "***".
C18_DumpHidesTokens ==
    dump.pc = "returned" =>
        /\ \A v \in {dump.original.AccessToken, dump.original.RefreshToken} :
              (v # "" /\ v # "***") => v \notin Written
        /\ dump.status = StatusOK =>
              /\ dump.original.AccessToken # "" =>
                    Member("OAuth2Token.access_token") = {"***"}
              /\ dump.original.RefreshToken # "" =>
                    Member("OAuth2Token.refresh_token") = {"***"}
              /\ Member("OAuth2Token.access_token") \subseteq {"", "***"}
              /\ Member("OAuth2Token.refresh_token") \subseteq {"***"}

\* A document was written for a bundle with both tokens set.
C18_Witness ==
    /\ dump.pc = "returned" /\ dump.status = StatusOK
    /\ dump.original.AccessToken = "secret-a" /\ dump.original.RefreshToken = "secret-r"
    /\ Member("OAuth2Token.access_token") = {"***"}
    /\ Member("OAuth2Token.refresh_token") = {"***"}

\* C20: after any call of DumpToken, also one that ends in 500 because the
\* claims could not be extracted or the document not be serialized, the
\* caller's token has its access token and its refresh token overwritten with
\* "***" when they were not empty, and left empty otherwise; its other fields
\* are as they were.
C20_DumpCensorsInPlace ==
    dump.pc = "returned" =>
        /\ dump.token.AccessToken =
              IF dump.original.AccessToken = "" THEN "" ELSE "***"
        /\ dump.token.RefreshToken =
              IF dump.original.RefreshToken = "" THEN "" ELSE "***"
        /\ dump.token.TokenType = dump.original.TokenType
        /\ dump.token.Expiry = dump.original.Expiry
        /\ dump.status \in {StatusOK, StatusInternalServerError}

\* The claims could not be extracted: 500, and the caller's token is censored.
C20_Witness ==
    /\ dump.pc = "returned" /\ dump.status = StatusInternalServerError
    /\ dump.body = << <<"", "oidc: claims not set">> >>
    /\ dump.original.AccessToken = "secret-a" /\ dump.original.RefreshToken = ""
    /\ dump.token.AccessToken = "***" /\ dump.token.RefreshToken = ""
    /\ dump.token.TokenType = "Bearer"

\* The keys Auth has set as the state cookie of browser b1, and the last one.
KeysOfB1 == {k \in 1..Len(issued) : issued[k].to = "b1"}
LastKeyOfB1 == CHOOSE k \in KeysOfB1 : \A j \in KeysOfB1 : j <= k

\* C19: when a browser has run Auth more than once, the cookie it holds is
\* the one the last Auth set: a callback that carries this cookie and the
\* state of an earlier Auth is answered 400 "state did not match", and a
\* callback that carries this cookie passes the state check only with the
\* state the last Auth issued.
C19_SecondAuthOverwrites ==
    (IsCallback /\ req.cookie.present /\ req.cookie = Jar("b1")) =>
        /\ req.cookie.value = Base64(LastKeyOfB1)
        /\ \A k \in KeysOfB1 \ {LastKeyOfB1} :
              req.state = Base64(k) =>
                  /\ Done
                  /\ req.resp = Answer(StatusBadRequest, "state did not match")
                  /\ ~ReachedIdP
        /\ (ReachedIdP \/ Did("devtoken")
              \/ \E i \in 1..Len(req.trace) : req.trace[i] = <<"state", "ok">>) =>
              req.state = Base64(LastKeyOfB1)

\* After two Auths: the cookie of the second with the state of the first.
C19_Witness ==
    /\ IsCallback /\ Done /\ Len(issued) = 2 /\ req.at = now
    /\ req.cookie = Jar("b1") /\ req.cookie.value = "k2" /\ req.state = "k1"
    /\ req.code # ""
    /\ req.resp = Answer(StatusBadRequest, "state did not match")

----------------------------------------------------------------------------
(* internal/psql/filters.go: time filters and the builder of WHERE          *)
(* statements.  A text is the sequence of its pieces; "$", "%s" and each    *)
(* digit are pieces of their own.  A time is the number of seconds since    *)
(* 0001-01-01T00:00:00Z, the zero time.                                     *)

MaxCalls == 2         \* calls made on one WhereBuilder

CompareEq == 0
CompareLe == 1
CompareGe == 2
CompareLt == 3
CompareGt == 4

Second == 1
Minute == 60
Hour == 3600
ZeroTime == 0
\* time.Local: the offset of the zone the process runs in, two hours east.
LocalOffset == 7200

\* The suffixes of the table, and two it does not hold.
DocumentedSuffixes == {"", "_eq", "_le", "_ge", "_lt", "_gt"}
Suffixes == DocumentedSuffixes \cup {"_ne", "_GT"}

\* ComparisonSuffixes[suffix]: the map gives 0 for a key it does not hold.
ComparisonSuffixes(suffix) ==
    CASE suffix \in {"", "_eq"} -> CompareEq
      [] suffix = "_le" -> CompareLe
      [] suffix = "_ge" -> CompareGe
      [] suffix = "_lt" -> CompareLt
      [] suffix = "_gt" -> CompareGt
      [] OTHER -> 0

Digits == <<"0", "1", "2", "3", "4", "5", "6", "7", "8", "9">>
DigitValue(tok) == (CHOOSE i \in 1..10 : Digits[i] = tok) - 1
IsDigit(tok) == \E i \in 1..10 : Digits[i] = tok

\* The two-digit and four-digit fields of a time string, by value.
TwoDigit == [n \in 0..99 |-> Digits[(n \div 10) + 1] \o Digits[(n % 10) + 1]]
FourDigit == [n \in 0..9 |-> "000" \o Digits[n + 1]]

\* The value of a field, -1 when it is not of the field's width.
Atoi2(tok) ==
    IF \E n \in 0..99 : TwoDigit[n] = tok
    THEN CHOOSE n \in 0..99 : TwoDigit[n] = tok ELSE 0 - 1
Atoi4(tok) ==
    IF \E n \in 0..9 : FourDigit[n] = tok
    THEN CHOOSE n \in 0..9 : FourDigit[n] = tok ELSE 0 - 1

\* The calendar of package time.
IsLeap(y) == (y % 4 = 0 /\ y % 100 # 0) \/ y % 400 = 0
DaysIn(y, m) ==
    IF m = 2 THEN (IF IsLeap(y) THEN 29 ELSE 28)
    ELSE IF m \in {4, 6, 9, 11} THEN 30 ELSE 31
DaysInYear(y) == IF IsLeap(y) THEN 366 ELSE 365
DaysBeforeYear(y) ==
    365 * (y - 1) + ((y - 1) \div 4) - ((y - 1) \div 100) + ((y - 1) \div 400)
RECURSIVE DaysBeforeMonth(_, _)
DaysBeforeMonth(y, m) ==
    IF m <= 1 THEN 0 ELSE DaysBeforeMonth(y, m - 1) + DaysIn(y, m - 1)

\* time.Date(y, m, d, h, mi, sec, 0, loc) for a zone offset seconds east.
Date(y, m, d, h, mi, sec, offset) ==
    (DaysBeforeYear(y) + DaysBeforeMonth(y, m) + (d - 1)) * 24 * Hour
        + h * Hour + mi * Minute + sec * Second - offset

\* TimeZoneRegex: Z or +hh:mm or -hh:mm at the end of the string.
ZoneOffsets == [Z |-> 0, p |-> 2 * Hour, m |-> 0 - 5 * Hour]
IsZone(tok) == tok \in {"Z", "+02:00", "-05:00"}
ZoneOffset(tok) ==
    IF tok = "Z" THEN ZoneOffsets.Z ELSE IF tok = "+02:00" THEN ZoneOffsets.p
    ELSE ZoneOffsets.m
TimeZoneRegexMatch(str) == str # <<>> /\ IsZone(str[Len(str)])

\* strings.Replace(timeString, " ", "+", -1)
SpaceToPlus(str) ==
    [i \in 1..Len(str) |-> IF str[i] = " 02:00" THEN "+02:00" ELSE str[i]]

\* The layouts ParseTimeFilter tries, in its order, without the zone.
Layouts ==
    << <<"2006">>,
       <<"2006", "-", "01">>,
       <<"2006", "-", "01", "-", "02">>,
       <<"2006", "-", "01", "-", "02", "T", "15">>,
       <<"2006", "-", "01", "-", "02", "T", "15", ":", "04">>,
       <<"2006", "-", "01", "-", "02", "T", "15", ":", "04", ":", "05">> >>

\* The value of the field a layout names, where the string has it.
Field(layout, str, name, default) ==
    IF \E i \in 1..Len(layout) : layout[i] = name
    THEN LET i == CHOOSE j \in 1..Len(layout) : layout[j] = name
         IN  IF name = "2006" THEN Atoi4(str[i]) ELSE Atoi2(str[i])
    ELSE default

\* time.ParseInLocation(layout, str, time.Local): the zero time and an error
\* when str is not of the layout or a field is out of range.
ParseInLocation(layout, str) ==
    LET failed == [err |-> TRUE, t |-> ZeroTime, y |-> 1, m |-> 1] IN
    IF Len(str) # Len(layout) THEN failed
    ELSE LET y == Field(layout, str, "2006", 1)
             m == Field(layout, str, "01", 1)
             d == Field(layout, str, "02", 1)
             h == Field(layout, str, "15", 0)
             mi == Field(layout, str, "04", 0)
             sec == Field(layout, str, "05", 0)
             zoned == layout[Len(layout)] = "Z07:00"
             literals == \A i \in 1..Len(layout) :
                            /\ layout[i] \in {"-", "T", ":"} => str[i] = layout[i]
                            /\ layout[i] = "Z07:00" => IsZone(str[i])
         IN  IF /\ literals
                /\ y >= 0 /\ m >= 1 /\ m <= 12 /\ d >= 1
                /\ h >= 0 /\ h <= 23 /\ mi >= 0 /\ mi <= 59 /\ sec >= 0 /\ sec <= 59
                /\ d <= DaysIn(y, m)
             THEN [err |-> FALSE,
                   t |-> Date(y, m, d, h, mi, sec,
                              IF zoned THEN ZoneOffset(str[Len(str)]) ELSE LocalOffset),
                   y |-> y, m |-> m]
             ELSE failed

\* filter.Precision for the layout that parsed: t.AddDate(1, 0, 0).Sub(t),
\* t.AddDate(0, 1, 0).Sub(t), 24 hours, an hour, a minute, a second.
PrecisionOf(i, parsed) ==
    CASE i = 1 -> DaysInYear(parsed.y) * 24 * Hour
      [] i = 2 -> DaysIn(parsed.y, parsed.m) * 24 * Hour
      [] i = 3 -> Hour * 24
      [] i = 4 -> Hour
      [] i = 5 -> Minute
      [] OTHER -> Second

ParseTimeFilter(suffix, timeString) ==
    LET str == SpaceToPlus(timeString)
        tz == IF TimeZoneRegexMatch(str) THEN <<"Z07:00">> ELSE <<>>
        ok == {i \in 1..Len(Layouts) : ~ParseInLocation(Layouts[i] \o tz, str).err}
    IN  IF ok = {}
        THEN [Precision |-> 0, Time |-> ZeroTime, Comparison |-> ComparisonSuffixes(suffix)]
        ELSE LET i == CHOOSE j \in ok : \A k \in ok : j <= k
                 parsed == ParseInLocation(Layouts[i] \o tz, str)
             IN  [Precision |-> PrecisionOf(i, parsed), Time |-> parsed.t,
                  Comparison |-> ComparisonSuffixes(suffix)]

\* TimeFilter.Start, End and IsZero.
Start(filter) == filter.Time
EndIsStart(filter) == filter.Time
End(filter) == filter.Time + filter.Precision
IsZeroNever(filter) == FALSE
IsZero(filter) == filter.Time = ZeroTime

\* The time strings of requests: of the accepted formats, and of none.
AcceptedTimeStrings ==
    { <<"0002">>, <<"0004", "-", "02">>, <<"0002", "-", "08", "-", "27">>,
      <<"0002", "-", "08", "-", "27", "T", "13", "-05:00">>,
      <<"0002", "-", "08", "-", "27", "T", "13", ":", "30">>,
      <<"0002", "-", "08", "-", "27", "T", "13", ":", "30", ":", "00", " 02:00">>,
      <<"0001", "Z">> }
RejectedTimeStrings ==
    { <<>>, <<"yesterday">>, <<"0002", "-", "13">>, <<"0002", "-", "8">>,
      <<"0002", "-", "02", "-", "29">>,
      <<"0002", "-", "08", "-", "27", "T", "24">> }
TimeStrings == AcceptedTimeStrings \cup RejectedTimeStrings

\* The arguments of a statement: strings and times.
NoArg == [kind |-> "", s |-> "", t |-> 0]
StringArg(s) == [kind |-> "string", s |-> s, t |-> 0]
TimeArg(t) == [kind |-> "time", s |-> "", t |-> t]

\* strconv.Itoa
RECURSIVE Itoa(_)
Itoa(n) ==
    IF n < 10 THEN <<Digits[n + 1]>>
    ELSE Itoa(n \div 10) \o <<Digits[(n % 10) + 1]>>

\* strings.Replace(query, "$", placeholder, -1)
RECURSIVE Replace(_, _, _)
Replace(query, old, new) ==
    IF query = <<>> THEN <<>>
    ELSE (IF Head(query) = old THEN new ELSE <<Head(query)>>)
             \o Replace(Tail(query), old, new)

\* fmt.Sprintf(format, a...): each %s takes the next operand, and reports
\* the missing one where there is none.
RECURSIVE Sprintf(_, _)
Sprintf(format, a) ==
    IF format = <<>> THEN <<>>
    ELSE IF Head(format) = "%s"
         THEN IF a = <<>>
              THEN <<"%!s(MISSING)">> \o Sprintf(Tail(format), a)
              ELSE Head(a) \o Sprintf(Tail(format), Tail(a))
         ELSE <<Head(format)>> \o Sprintf(Tail(format), a)

\* strings.Join
RECURSIVE Join(_, _)
Join(elems, sep) ==
    IF elems = <<>> THEN <<>>
    ELSE IF Len(elems) = 1 THEN elems[1]
    ELSE elems[1] \o <<sep>> \o Join(Tail(elems), sep)

\* NewWhereBuilder
NewWhereBuilder == [conditions |-> <<>>, args |-> <<>>]

\* addArg numbering the placeholder by the number of conditions.
addArgByCondition(b, param) ==
    [b |-> [b EXCEPT !.args = Append(@, param)],
     ph |-> <<"$">> \o Itoa(Len(b.conditions) + 1)]

\* addArg: the builder with the argument, and the placeholder for it.
addArg(b, param) ==
    [b |-> [b EXCEPT !.args = Append(@, param)],
     ph |-> <<"$">> \o Itoa(Len(b.args) + 1)]

cprintf(b, format, a) ==
    [b EXCEPT !.conditions = Append(@, Sprintf(format, a))]

\* Where: the statement and its arguments.
Where(b) ==
    IF Len(b.conditions) < 1 THEN [text |-> <<>>, args |-> <<>>]
    ELSE [text |-> <<"WHERE ">> \o Join(b.conditions, " AND "), args |-> b.args]

\* The builder after MaybeAdd(enabled, query).
Added(b, enabled, query) ==
    IF enabled THEN cprintf(b, query, <<>>) ELSE b

\* The builder after MaybeAddString(s, query).
AddedString(b, s, query) ==
    IF s # ""
    THEN LET r == addArg(b, StringArg(s))
         IN  cprintf(r.b, Replace(query, "$", r.ph), <<>>)
    ELSE b

\* One comparison of MaybeAddTimeFilter: cprintf("%s op %s", query, addArg(t)).
Compared(b, query, op, t) ==
    LET r == addArg(b, TimeArg(t))
    IN  cprintf(r.b, <<"%s", op, "%s">>, <<query, r.ph>>)

\* The builder after MaybeAddTimeFilter(filter, query).
AddedTimeFilter(b, filter, query) ==
    IF IsZero(filter) THEN b
    ELSE CASE filter.Comparison = CompareEq ->
                  Compared(Compared(b, query, " < ", End(filter)),
                           query, " >= ", Start(filter))
           [] filter.Comparison = CompareLe -> Compared(b, query, " < ", End(filter))
           [] filter.Comparison = CompareGe -> Compared(b, query, " >= ", Start(filter))
           [] filter.Comparison = CompareLt -> Compared(b, query, " < ", Start(filter))
           [] filter.Comparison = CompareGt -> Compared(b, query, " >= ", End(filter))
           [] OTHER -> b

\* What callers pass: the texts of conditions and the strings of requests.
FlagQueries == { <<"published">>, <<"note = '", "%s", "'">>, <<"owner = ", "$", "1">> }
StringQueries ==
    { <<"creator = ", "$">>, <<"org = ", "$", " OR unit = ", "$">>,
      <<"title = ", "$", "1">> }
TimeQueries == { <<"created">> }
Strings == {"", "alice", "o'brien"}

\* The builder a request handler holds, with what each condition was made
\* from (made) and the last call on it (last).
NoCall == [op |-> "", query |-> <<>>, enabled |-> FALSE, s |-> "", suffix |-> "",
           timeString |-> <<>>, filter |-> [Precision |-> 0, Time |-> 0, Comparison |-> 0],
           before |-> NewWhereBuilder]
NoWhere ==
    [conditions |-> <<>>, args |-> <<>>, made |-> <<>>, calls |-> 0, last |-> NoCall]
Builder(x) == [conditions |-> x.conditions, args |-> x.args]

\* The handler's builder after a call that left it as b.
Called(b, call) ==
    LET old == Builder(w)
        conds == Len(b.conditions) - Len(old.conditions)
        params == Len(b.args) - Len(old.args)
    IN  [conditions |-> b.conditions, args |-> b.args,
         made |-> w.made \o
                  [j \in 1..conds |->
                      [op |-> call.op, query |-> call.query,
                       v |-> IF j <= params THEN b.args[Len(old.args) + j] ELSE NoArg]],
         calls |-> w.calls + 1,
         last |-> [call EXCEPT !.before = old]]

MaybeAdd(enabled, query) ==
    /\ w.calls < MaxCalls
    /\ w' = Called(Added(Builder(w), enabled, query),
                   [NoCall EXCEPT !.op = "MaybeAdd", !.enabled = enabled,
                                  !.query = query])
    /\ UNCHANGED <<phase, client, now, issued, usedCodes, req, hooked, slots, setup, dump>>

MaybeAddString(s, query) ==
    /\ w.calls < MaxCalls
    /\ w' = Called(AddedString(Builder(w), s, query),
                   [NoCall EXCEPT !.op = "MaybeAddString", !.s = s, !.query = query])
    /\ UNCHANGED <<phase, client, now, issued, usedCodes, req, hooked, slots, setup, dump>>

\* MaybeAddTimeFilter with the filter ParseTimeFilter made of a request's
\* parameter.
MaybeAddTimeFilter(suffix, timeString, query) ==
    /\ w.calls < MaxCalls
    /\ LET filter == ParseTimeFilter(suffix, timeString)
       IN  w' = Called(AddedTimeFilter(Builder(w), filter, query),
                       [NoCall EXCEPT !.op = "MaybeAddTimeFilter", !.suffix = suffix,
                                      !.timeString = timeString, !.filter = filter,
                                      !.query = query])
    /\ UNCHANGED <<phase, client, now, issued, usedCodes, req, hooked, slots, setup, dump>>

WhereInit == Idle /\ setup = <<>> /\ dump = <<>> /\ w = NoWhere

WhereNext ==
    \/ \E enabled \in BOOLEAN, query \in FlagQueries : MaybeAdd(enabled, query)
    \/ \E s \in Strings, query \in StringQueries : MaybeAddString(s, query)
    \/ \E suffix \in Suffixes, timeString \in TimeStrings, query \in TimeQueries :
           MaybeAddTimeFilter(suffix, timeString, query)

WhereSpec == WhereInit /\ [][WhereNext]_vars

----------------------------------------------------------------------------
(* Properties of the WHERE builder. *)

\* The number a "$" at position i of a text is followed by, 0 for none.
RECURSIVE DigitRun(_, _, _)
DigitRun(text, i, acc) ==
    IF i <= Len(text) /\ IsDigit(text[i])
    THEN DigitRun(text, i + 1, acc * 10 + DigitValue(text[i]))
    ELSE acc
Dollars(text) == {i \in 1..Len(text) : text[i] = "$"}
PlaceholderAt(text, i) == DigitRun(text, i + 1, 0)

\* A query as the package means it to be passed: MaybeAddString takes a bare
\* "$" for the position, the other two take none.
Conventional(op, query) ==
    /\ \A i \in Dollars(query) : i = Len(query) \/ ~IsDigit(query[i + 1])
    /\ op # "MaybeAddString" => Dollars(query) = {}
AllConventional == \A i \in 1..Len(w.made) : Conventional(w.made[i].op, w.made[i].query)

\* The pieces of what requests supply: the strings and the parts of times.
UserPieces ==
    (Strings \ {""}) \cup UNION {{ts[i] : i \in 1..Len(ts)} : ts \in TimeStrings}

PlaceholdersMatchArguments ==
    LET out == Where(Builder(w))
        n == Len(out.args)
    IN  /\ \A i \in 1..Len(w.conditions) : \A j \in Dollars(w.conditions[i]) :
              LET k == PlaceholderAt(w.conditions[i], j)
              IN  /\ 1 <= k
                  /\ k <= n
                  /\ w.made[i].v # NoArg
                  /\ out.args[k] = w.made[i].v
        /\ \A i, j \in Dollars(out.text) :
              i < j => PlaceholderAt(out.text, i) <= PlaceholderAt(out.text, j)
        /\ \A j \in Dollars(out.text) : PlaceholderAt(out.text, j) \in 1..n
        /\ \A j \in 1..Len(out.text) : out.text[j] \notin UserPieces
        /\ n = Len(w.args)

\* C21 as stated: after any sequence of MaybeAdd, MaybeAddString and
\* MaybeAddTimeFilter calls, every placeholder $k of a condition has
\* 1 <= k <= n, n the number of arguments, the k-th argument of Where() is
\* the value the placeholder was made for, placeholders ascend in the order
\* of addition, and no value of a request is in the text.  A query that
\* brings a "$" of its own, as MaybeAdd(true, "owner = $1") or
\* MaybeAddString(s, "title = $1"), breaks it.
C21_AnyCallsPlaceholdersMatch == PlaceholdersMatchArguments

\* C21, amended: the same, when every condition was made from a query of
\* the package's convention: a bare "$" and only in MaybeAddString.
C21_ConventionalPlaceholdersMatch == AllConventional => PlaceholdersMatchArguments

\* C21 witness: a string condition after a time range, three placeholders.
C21_Witness ==
    /\ AllConventional
    /\ Len(w.args) = 3
    /\ w.made[1].op = "MaybeAddTimeFilter"
    /\ w.made[3].op = "MaybeAddString"
    /\ Dollars(w.conditions[3]) # {}
    /\ \A j \in Dollars(w.conditions[3]) : PlaceholderAt(w.conditions[3], j) = 3

\* Whether a row whose time is q passes a condition "query < $k" or
\* "query >= $k" with the arguments args.
ConditionHolds(cond, args, q) ==
    LET i == CHOOSE j \in 1..Len(cond) : cond[j] \in {" < ", " >= "}
        k == PlaceholderAt(cond, i + 1)
    IN  IF cond[i] = " < " THEN q < args[k].t ELSE q >= args[k].t

\* Whether it passes all the conditions of b after the first `from`.
Selected(b, from, q) ==
    \A i \in (from + 1)..Len(b.conditions) : ConditionHolds(b.conditions[i], b.args, q)

\* Whether the last call's filter, taken with comparison cmp, selects q.
SelectedBy(cmp, q) ==
    Selected(AddedTimeFilter(w.last.before,
                             [w.last.filter EXCEPT !.Comparison = cmp], w.last.query),
             Len(w.last.before.conditions), q)

\* The times around the two ends of a filter's range.
Probes(filter) ==
    LET lo == filter.Time
        hi == filter.Time + filter.Precision
    IN  {lo - 1, lo, lo + 1, hi - 1, hi, hi + 1}

\* What the range Time <= time < Time + Precision asks of q, by comparison.
Expected(filter, q) ==
    LET lo == filter.Time
        hi == filter.Time + filter.Precision
    IN  CASE filter.Comparison = CompareEq -> lo <= q /\ q < hi
          [] filter.Comparison = CompareLe -> q < hi
          [] filter.Comparison = CompareGe -> q >= lo
          [] filter.Comparison = CompareLt -> q < lo
          [] filter.Comparison = CompareGt -> q >= hi

TimeFilterAdded == w.last.op = "MaybeAddTimeFilter" /\ w.last.filter.Time # 0

\* C22: after MaybeAddTimeFilter with a non-zero filter for the range
\* Start <= time < End, End = Start + Precision, the conditions the call
\* added select exactly: Eq: Start <= q < End; Le: q < End; Ge: q >= Start;
\* Lt: q < Start; Gt: q >= End.  For every q, Lt and Ge are complements,
\* Le and Gt are complements, and Eq holds exactly when Le and Ge both do.
C22_TimeFilterSelectsRange ==
    TimeFilterAdded =>
        /\ Len(w.conditions) > Len(w.last.before.conditions)
        /\ \A q \in Probes(w.last.filter) :
              /\ Selected(Builder(w), Len(w.last.before.conditions), q)
                     <=> Expected(w.last.filter, q)
              /\ SelectedBy(CompareLt, q) <=> ~SelectedBy(CompareGe, q)
              /\ SelectedBy(CompareLe, q) <=> ~SelectedBy(CompareGt, q)
              /\ SelectedBy(CompareEq, q)
                     <=> (SelectedBy(CompareLe, q) /\ SelectedBy(CompareGe, q))

\* C22 witness: an equality filter of a month added to a builder that holds
\* an argument already, so that its two conditions compare with $2 and $3.
C22_Witness ==
    /\ TimeFilterAdded
    /\ w.last.filter.Comparison = CompareEq
    /\ w.last.filter.Precision = 29 * 24 * Hour
    /\ Len(w.last.before.args) = 1
    /\ Len(w.conditions) = Len(w.last.before.conditions) + 2
    /\ Selected(Builder(w), Len(w.last.before.conditions), w.last.filter.Time)

TimeFilterCalled == w.last.op = "MaybeAddTimeFilter"

\* C23: a time string of none of the accepted formats makes ParseTimeFilter
\* return a filter whose time is the zero time, and MaybeAddTimeFilter then
\* adds no condition and no argument: the builder and what Where() returns
\* are as before the call.  A suffix that the table does not hold gives the
\* equality comparison: with an accepted time the call adds the two
\* conditions of the range, Start <= q < End.
C23_UnparsedDroppedUnknownSuffixEq ==
    TimeFilterCalled =>
        /\ w.last.timeString \in RejectedTimeStrings =>
              /\ w.last.filter.Time = 0
              /\ Builder(w) = w.last.before
              /\ Where(Builder(w)) = Where(w.last.before)
        /\ w.last.suffix \notin DocumentedSuffixes =>
              /\ w.last.filter.Comparison = CompareEq
              /\ w.last.filter.Time # 0 =>
                    /\ Len(w.conditions) = Len(w.last.before.conditions) + 2
                    /\ Len(w.args) = Len(w.last.before.args) + 2
                    /\ \A q \in Probes(w.last.filter) :
                          Selected(Builder(w), Len(w.last.before.conditions), q)
                              <=> /\ w.last.filter.Time <= q
                                  /\ q < w.last.filter.Time + w.last.filter.Precision

\* C23 witness: a day that the month does not have, with a suffix the table
\* does not hold, passed to a builder that holds a condition and an argument.
C23_Witness ==
    /\ TimeFilterCalled
    /\ w.last.timeString = <<"0002", "-", "02", "-", "29">>
    /\ w.last.suffix = "_ne"
    /\ Len(w.conditions) = 1
    /\ Len(w.args) = 1
    /\ Builder(w) = w.last.before

====
